---- MODULE Spec2Model ----
(***************************************************************************)
(* Resume generation pipeline (backend/app/services/resume_pipeline.py),   *)
(* its two orchestration paths (backend/app/api/v1/resumes_v2.py), the AI  *)
(* enhancer (backend/app/services/ai_enhancer_v2.py) and the task lock     *)
(* (backend/app/workers/task_locks.py).                                    *)
(*                                                                         *)
(* Strings are sequences of one-character strings, so that str.strip(),    *)
(* truthiness and prefix removal are computed rather than assumed.         *)
(***************************************************************************)
EXTENDS Integers, Sequences, FiniteSets, TLC

\* ------------------------------------------------------------------ bounds
MaxStrLen == 1
MaxExp == 1
MaxAch == 2
MaxProj == 1
MaxLines == 3
MaxPdfFail == 2
MaxTime == 3
MaxTtl == 2
MaxEntries == 3     \* experience entries of a draft given to _validate_draft

\* --------------------------------------------------------------- constants
NULL == "null"
SP == " "

\* ----------------------------------------------------------------- strings
RECURSIVE LStrip(_)
LStrip(s) == IF s # <<>> /\ Head(s) = SP THEN LStrip(Tail(s)) ELSE s

RECURSIVE RStrip(_)
RStrip(s) ==
    IF s # <<>> /\ s[Len(s)] = SP THEN RStrip(SubSeq(s, 1, Len(s) - 1)) ELSE s

\* str.strip()
Strip(s) == RStrip(LStrip(s))

\* str.startswith(p)
StartsWith(s, p) == Len(s) >= Len(p) /\ SubSeq(s, 1, Len(p)) = p

\* All sequences over S of length 0..n
RECURSIVE SeqsUpTo(_, _)
SeqsUpTo(S, n) ==
    IF n = 0 THEN {<<>>}
    ELSE LET shorter == SeqsUpTo(S, n - 1)
         IN  shorter \cup {Append(q, x) : q \in {t \in shorter : Len(t) = n - 1}, x \in S}

TextChars == {SP, "a"}
Texts == SeqsUpTo(TextChars, MaxStrLen)

\* ------------------------------------------------------------------ models
\* ResumeStatus
DRAFT == "draft"
PROCESSING == "processing"
COMPLETE == "complete"
ERROR == "error"
ResumeStatus == {DRAFT, PROCESSING, COMPLETE, ERROR}

\* AIEnhancementOptions: the three per-section toggles the pipeline reads
AIEnhancementOptions ==
    [enhance_summary : BOOLEAN, enhance_experience : BOOLEAN, enhance_projects : BOOLEAN]

ExperienceEntry(companies, positions, bullets) ==
    [company : companies, position : positions,
     achievements : SeqsUpTo(bullets, MaxAch)]

ProjectEntry(descriptions) == [description : descriptions]

\* ResumeDraft values over the given field pools
ResumeDraft(names, summaries, companies, positions, bullets, descriptions, nExp, nProj) ==
    [profile : [full_name : names, summary : summaries],
     experience : SeqsUpTo(ExperienceEntry(companies, positions, bullets), nExp),
     projects : SeqsUpTo(ProjectEntry(descriptions), nProj),
     ai_enhancement : AIEnhancementOptions]

\* ResumeDraft.model_dump(): the draft as a plain dict, a fresh structure
\* with the same fields and values
model_dump(draft) ==
    [profile |-> [full_name |-> draft.profile.full_name,
                  summary |-> draft.profile.summary],
     experience |-> [i \in 1..Len(draft.experience) |->
                        [company |-> draft.experience[i].company,
                         position |-> draft.experience[i].position,
                         achievements |-> draft.experience[i].achievements]],
     projects |-> [j \in 1..Len(draft.projects) |->
                        [description |-> draft.projects[j].description]],
     ai_enhancement |-> draft.ai_enhancement]

\* -------------------------------------------------------------- validation
\* Variant: only the empty string is rejected, the strip() test is missing
Blank_without_strip(s) == s = <<>>

\* `not s or not s.strip()`
Blank(s) == s = <<>> \/ Strip(s) = <<>>

\* Index of the first experience entry _validate_draft rejects, 0 if none
RECURSIVE FirstBadEntry(_, _)
FirstBadEntry(exps, idx) ==
    IF idx > Len(exps) THEN 0
    ELSE IF Blank(exps[idx].company) \/ Blank(exps[idx].position) THEN idx
    ELSE FirstBadEntry(exps, idx + 1)

\* ResumePipeline._validate_draft: Passed when the draft passes, otherwise
\* the ValidationError raised, with the field and the 1-based entry index its
\* message names (entry 0 for the profile)
Passed == [raised |-> FALSE, field |-> "", entry |-> 0]
ValidationError(f, e) == [raised |-> TRUE, field |-> f, entry |-> e]

\* Variant: the message carries the loop's 0-based idx
_validate_draft_zero_based(draft) ==
    IF Blank(draft.profile.full_name)
    THEN ValidationError("full_name", 0)
    ELSE LET bad == FirstBadEntry(draft.experience, 1)
         IN  IF bad = 0 THEN Passed
             ELSE IF Blank(draft.experience[bad].company)
                  THEN ValidationError("company", bad - 1)
                  ELSE ValidationError("position", bad - 1)

_validate_draft(draft) ==
    IF Blank(draft.profile.full_name)
    THEN ValidationError("full_name", 0)
    ELSE LET bad == FirstBadEntry(draft.experience, 1)
         IN  IF bad = 0 THEN Passed
             ELSE IF Blank(draft.experience[bad].company)
                  THEN ValidationError("company", bad)
                  ELSE ValidationError("position", bad)

\* --------------------------------------------------------------- optionals
\* Optional[...] fields: None is the empty tuple, a value v is <<v>>
None == <<>>
Some(v) == <<v>>

\* ------------------------------------------------------------- AI enhancer
\* The five bullet prefixes _parse_bullet_points removes, in its order
BulletPrefixes ==
    << <<"-", SP>>, <<"bullet", SP>>, <<"*", SP>>, <<"arrow", SP>>, <<">", SP>> >>

\* First prefix the line starts with, 0 if none (the loop breaks on a match)
RECURSIVE FirstPrefix(_, _)
FirstPrefix(line, k) ==
    IF k > Len(BulletPrefixes) THEN 0
    ELSE IF StartsWith(line, BulletPrefixes[k]) THEN k
    ELSE FirstPrefix(line, k + 1)

\* One iteration of the loop body: the bullet kept for a line, <<>> if the
\* line is skipped
CleanLine(rawLine) ==
    LET line == Strip(rawLine)
        k == FirstPrefix(line, 1)
    IN  IF line = <<>> THEN <<>>
        ELSE IF k = 0 THEN line
        ELSE Strip(SubSeq(line, Len(BulletPrefixes[k]) + 1, Len(line)))

RECURSIVE CollectBullets(_)
CollectBullets(lines) ==
    IF lines = <<>> THEN <<>>
    ELSE LET b == CleanLine(Head(lines))
         IN  IF b = <<>> THEN CollectBullets(Tail(lines))
             ELSE <<b>> \o CollectBullets(Tail(lines))

\* AIEnhancerService._parse_bullet_points; the LLM text is given as the
\* sequence of its lines (text.strip().split('\n'))
_parse_bullet_points(lines, expected_count) ==
    LET bullets == CollectBullets(lines)
    IN  IF Len(bullets) < expected_count THEN bullets
        ELSE IF Len(bullets) > expected_count THEN SubSeq(bullets, 1, expected_count)
        ELSE bullets

\* Outcome of one call the pipeline makes on its ai_enhancer:
\*   kind "text"           llm_service.generate_completion returned `text`
\*   kind "llm_raise"      generate_completion raised (caught in the enhancer)
\*   kind "enhancer_raise" the enhancer call itself raised (caught in the
\*                         pipeline's per-field try/except)
LLMRaise == [kind |-> "llm_raise", text |-> <<>>]
EnhancerRaise == [kind |-> "enhancer_raise", text |-> <<>>]
Completion(t) == [kind |-> "text", text |-> t]

\* Completions for a single text field (summary, project description)
FieldCompletions == {<<"b">>, <<SP, "b", SP>>, <<SP>>}
\* Lines an achievements completion is made of
CompletionLines == {<<>>, <<"b">>, <<"-", SP, "b", SP>>, <<"-", SP>>}
BulletCompletions == SeqsUpTo(CompletionLines, MaxLines)

FieldOutcomes == {LLMRaise, EnhancerRaise} \cup {Completion(t) : t \in FieldCompletions}
BulletOutcomes == {LLMRaise, EnhancerRaise} \cup {Completion(t) : t \in BulletCompletions}

\* Variant: no fallback to the original when the LLM call raises
enhance_summary_no_fallback(original_summary, llm) ==
    IF Blank(original_summary) THEN original_summary
    ELSE Strip(llm.text)

\* AIEnhancerService.enhance_summary, for an outcome that is not enhancer_raise
enhance_summary(original_summary, llm) ==
    IF Blank(original_summary) THEN original_summary
    ELSE IF llm.kind = "llm_raise" THEN original_summary
    ELSE Strip(llm.text)

\* AIEnhancerService.enhance_experience_achievements
enhance_experience_achievements(achievements, llm) ==
    IF Len(achievements) = 0 THEN achievements
    ELSE IF llm.kind = "llm_raise" THEN achievements
    ELSE _parse_bullet_points(llm.text, Len(achievements))

\* AIEnhancerService.enhance_project_description
enhance_project_description(original_description, llm) ==
    IF Blank(original_description) THEN original_description
    ELSE IF llm.kind = "llm_raise" THEN original_description
    ELSE Strip(llm.text)

\* ------------------------------------------------------------------- state
\* The two orchestration paths, each run once per behaviour: "api" is
\* create_resume followed by the background task _process_existing_resume,
\* "direct" is ResumePipeline.generate_resume. A run's name also stands for
\* the uuid4 resume_id it generates.
Runs == {"api", "direct"}

VARIABLES
    input,          \* input[r]: the ResumeDraft submitted to run r, None if none
    ai_enhancer,    \* pipeline.ai_enhancer is not None
    storeFaulty,    \* the resumes collection may raise on a write
    pdfPlan,        \* pdfPlan[r]: the PDF service fails its first pdfPlan[r] calls
    resumes,        \* db["resumes"]: resumes[id] is the stored document
    pc,             \* pc[r]: where run r is
    idx,            \* idx[r]: index of the entry an enhancement loop is at
    enhanced,       \* enhanced[r]: the in-memory (enhanced) snapshot
    html_content,   \* html_content[r]: rendered HTML held by the run
    pdf_bytes,      \* pdf_bytes[r]: PDF bytes held by the run
    pdf_metadata,   \* pdf_metadata[r]: PDFMetadata returned by _upload_pdf
    exc,            \* exc[r]: the exception being handled
    outcome,        \* outcome[r]: what the run's entry point returned or raised
    response,       \* response[r]: create_resume's HTTP response
    queued,         \* queued[r]: background_tasks.add_task was called
    calls,          \* calls[r]: number of calls made on each collaborator
    failed,         \* failed[r]: the fields whose enhancement failed, as
                    \* <<section, index>> (what the error logs record)
    now,            \* datetime.utcnow(), in seconds
    redis_client,   \* task_lock.redis_client is not None (connect() succeeded)
    redisFaulty,    \* Redis commands may raise
    redis,          \* the Redis keyspace: redis[key] is None or <<expires_at>>
    _task_locks,    \* the module-level dict of the in-memory fallback
    call,           \* call[c]: the TaskLock call caller c is in or has finished
    held,           \* held[c][k]: <<expiry>> of the lock caller c acquired on key k
                    \* and has neither released nor seen expire, else None
    task,           \* task[t]: the generate_resume_async message t, its
                    \* resume_id, self.request.retries, where its execution
                    \* is and the result it returned
    task_resumes    \* db["resumes"] as the worker task sees it: the documents
                    \* the legacy endpoint inserted, by resume_id

vars == <<input, ai_enhancer, storeFaulty, pdfPlan, resumes, pc, idx, enhanced,
          html_content, pdf_bytes, pdf_metadata, exc, outcome, response, queued,
          calls, failed, now, redis_client, redisFaulty, redis, _task_locks, call,
          held, task, task_resumes>>

lockVars == <<now, redis_client, redisFaulty, redis, _task_locks, call, held>>

workerVars == <<task, task_resumes>>

\* What a pipeline run never writes: its inputs, the collaborators' plans and
\* the task lock and the worker's task
env == <<input, ai_enhancer, storeFaulty, pdfPlan, lockVars, workerVars>>

NoDoc == [missing |-> TRUE]
Stored(id) == resumes[id] # NoDoc

\* ResumeDocument(resume_id, user_id, snapshot, status=DRAFT, ...).model_dump()
ResumeDocument(resume_id, user_id, snapshot) ==
    [missing |-> FALSE,
     resume_id |-> resume_id,
     user_id |-> user_id,
     snapshot |-> snapshot,
     status |-> DRAFT,
     html_content |-> None,
     pdf |-> None,
     created_at |-> "created",
     completed_at |-> None,
     error_message |-> None,
     error_code |-> NULL,
     retry_count |-> 0]

UserOf(r) == "user"

NoExc == [type |-> "none", msg |-> ""]
Raise(t, m) == [type |-> t, msg |-> m]

NoOutcome == [kind |-> "none", detail |-> Passed]
NoResponse == [code |-> 0, resume_id |-> NULL, status |-> NULL, detail |-> Passed]

CallKinds == {"ai", "render", "pdf", "upload", "presign", "complete", "mark_error",
              "get_metrics_tracker", "record_success", "record_failure"}
NoCalls == [k \in CallKinds |-> 0]
Count(cs, r, k) == [cs EXCEPT ![r][k] = @ + 1]
Called(r, k) == Count(calls, r, k)

\* metrics.record_failure(...), called by the handlers of generate_resume and
\* _process_existing_resume
record_failure(cs, r) == Count(cs, r, "record_failure")

\* Outcomes of a write on the resumes collection: TRUE applied, FALSE raised
\* without being applied
WriteOutcomes == IF storeFaulty THEN {TRUE, FALSE} ELSE {TRUE}

\* ----------------------------------------------------------------- inputs
\* Requests for the two-path specification: a valid draft with one of its
\* three sections to be enhanced, the same with no toggle, one with no
\* experience entry, one with an empty name and one with a whitespace-only name
AllOff == [enhance_summary |-> FALSE, enhance_experience |-> FALSE,
           enhance_projects |-> FALSE]
OnlySummary == [AllOff EXCEPT !.enhance_summary = TRUE]
OnlyExperience == [AllOff EXCEPT !.enhance_experience = TRUE]
OnlyProjects == [AllOff EXCEPT !.enhance_projects = TRUE]

PathDraft(name, exps, toggles) ==
    [profile |-> [full_name |-> name, summary |-> <<"a">>],
     experience |-> exps,
     projects |-> << [description |-> <<"a">>] >>,
     ai_enhancement |-> toggles]

OneExperience ==
    << [company |-> <<"a">>, position |-> <<"a">>,
        achievements |-> << <<"a">>, <<"a">> >>] >>

PathDrafts ==
    {PathDraft(<<"a">>, OneExperience, OnlySummary),
     PathDraft(<<"a">>, OneExperience, OnlyExperience),
     PathDraft(<<"a">>, OneExperience, OnlyProjects),
     PathDraft(<<"a">>, OneExperience, AllOff),
     PathDraft(<<"a">>, <<>>, AllOff),
     PathDraft(<<>>, OneExperience, AllOff),
     PathDraft(<<SP>>, OneExperience, OnlySummary)}

\* Requests for the single-run specification: every draft within the bounds
BoundedDrafts ==
    ResumeDraft(Texts, {<<>>, <<SP>>, <<"a">>}, {<<>>, <<"a">>}, {<<>>, <<"a">>},
                {<<"a">>}, {<<SP>>, <<"a">>}, MaxExp, MaxProj)

InitRuns ==
    /\ resumes = [r \in Runs |-> NoDoc]
    /\ pc = [r \in Runs |-> "idle"]
    /\ idx = [r \in Runs |-> 0]
    /\ enhanced = [r \in Runs |-> None]
    /\ html_content = [r \in Runs |-> None]
    /\ pdf_bytes = [r \in Runs |-> None]
    /\ pdf_metadata = [r \in Runs |-> None]
    /\ exc = [r \in Runs |-> NoExc]
    /\ outcome = [r \in Runs |-> NoOutcome]
    /\ response = [r \in Runs |-> NoResponse]
    /\ queued = [r \in Runs |-> FALSE]
    /\ calls = [r \in Runs |-> NoCalls]
    /\ failed = [r \in Runs |-> {}]

\* ------------------------------------------------------------- task lock
LockCallers == {"w1", "w2"}
TaskNames == {"generate_resume_async"}
TaskArgs == {"x"}

\* hashlib.md5(str(task_args)).hexdigest(): distinct arguments are taken to
\* have distinct digests
md5(args_str) == <<"md5", args_str>>

\* TaskLock._get_lock_key
_get_lock_key(task_name, task_args) == <<"task_lock", task_name, md5(task_args)>>

LockKeys == {_get_lock_key(n, a) : n \in TaskNames, a \in TaskArgs}

NoCall == [op |-> "none", key |-> <<>>, ttl |-> 0, state |-> "idle", result |-> FALSE,
           raised |-> FALSE, free |-> FALSE, peers |-> {}, at |-> 0]

InitLocks ==
    /\ now = 0
    /\ redis = [k \in LockKeys |-> None]
    /\ _task_locks = [k \in LockKeys |-> None]
    /\ call = [c \in LockCallers |-> NoCall]
    /\ held = [c \in LockCallers |-> [k \in LockKeys |-> None]]

\* ------------------------------------------------------------ worker task
\* app.models.resume.ResumeStatus, the statuses the worker task writes
PENDING == "pending"
COMPLETED == "completed"
FAILED == "failed"

\* @celery_app.task(name="generate_resume_async", bind=True, max_retries=3)
max_retries == 3

\* Messages carrying generate_resume_async, and the resume ids they can name
Deliveries == {"t1", "t2"}
TaskResumes == {"d1", "d2"}

NoTask == [resume_id |-> NULL, retries |-> 0, state |-> "none", result |-> "none"]

\* The legacy endpoint inserts Resume(status=PENDING)
PendingResumes == [d \in TaskResumes |-> [status |-> PENDING]]

\* No message for the worker in the pipeline and lock specifications
NoTasks ==
    /\ task = [t \in Deliveries |-> NoTask]
    /\ task_resumes = PendingResumes

\* No TaskLock call and no worker task in the pipeline specifications
NoLocks ==
    /\ InitLocks
    /\ redis_client = FALSE
    /\ redisFaulty = FALSE
    /\ NoTasks

\* Both paths run, each on a request of PathDrafts
Init ==
    /\ input \in [Runs -> {Some(d) : d \in PathDrafts}]
    /\ ai_enhancer \in BOOLEAN
    /\ storeFaulty \in BOOLEAN
    /\ pdfPlan \in [Runs -> {0, MaxPdfFail}]
    /\ InitRuns
    /\ NoLocks

\* One path runs, on any draft within the bounds; the store is reliable
DraftInit ==
    /\ \E r \in Runs, d \in BoundedDrafts :
         input = [x \in Runs |-> IF x = r THEN Some(d) ELSE None]
    /\ ai_enhancer \in BOOLEAN
    /\ storeFaulty = FALSE
    /\ pdfPlan \in [Runs -> {0, MaxPdfFail}]
    /\ InitRuns
    /\ NoLocks

\* Requests for the validation specification: a named profile and up to
\* MaxEntries experience entries, each field present, blank or empty
EntryDrafts ==
    {PathDraft(<<"a">>, exps, AllOff) :
        exps \in SeqsUpTo([company : {<<>>, <<SP>>, <<"a">>},
                           position : {<<>>, <<SP>>, <<"a">>},
                           achievements : {<<>>}], MaxEntries)}

\* One entry point is called, on any of these drafts
ValidateInit ==
    /\ \E r \in Runs, d \in EntryDrafts :
         input = [x \in Runs |-> IF x = r THEN Some(d) ELSE None]
    /\ ai_enhancer = FALSE
    /\ storeFaulty \in BOOLEAN
    /\ pdfPlan = [r \in Runs |-> 0]
    /\ InitRuns
    /\ NoLocks

\* ------------------------------------------------------- pipeline helpers
Draft(r) == input[r][1]
Snapshot(r) == enhanced[r][1]

\* Variant: the update replaces the document, fields it does not name fall
\* back to those of an empty document
update_one_replacing(id, fields) ==
    IF Stored(id)
    THEN [resumes EXCEPT ![id] =
            [f \in DOMAIN @ |-> IF f \in DOMAIN fields THEN fields[f]
                                ELSE ResumeDocument(id, NULL, <<>>)[f]]]
    ELSE resumes

\* collection.update_one({"resume_id": id}, {"$set": fields}): the stored
\* document with the fields set; a filter matching nothing changes nothing
update_one(id, fields) ==
    IF Stored(id)
    THEN [resumes EXCEPT ![id] =
            [f \in DOMAIN @ |-> IF f \in DOMAIN fields THEN fields[f] ELSE @[f]]]
    ELSE resumes

AnyToggle(draft) ==
    \/ draft.ai_enhancement.enhance_summary
    \/ draft.ai_enhancement.enhance_experience
    \/ draft.ai_enhancement.enhance_projects

\* Next index >= from of an experience entry with a non-empty achievements
\* list, 0 if none
RECURSIVE NextExp(_, _)
NextExp(snap, from) ==
    IF from > Len(snap.experience) THEN 0
    ELSE IF Len(snap.experience[from].achievements) > 0 THEN from
    ELSE NextExp(snap, from + 1)

\* Next index >= from of a project with a truthy description, 0 if none
RECURSIVE NextProj(_, _)
NextProj(snap, from) ==
    IF from > Len(snap.projects) THEN 0
    ELSE IF snap.projects[from].description # <<>> THEN from
    ELSE NextProj(snap, from + 1)

\* Variant: the HTML stage is left out, the PDF stage follows at once
AfterAi_skipping_render(r) == [pc |-> "pdf", idx |-> 0]

\* The stage that follows AI enhancement: generate_resume sets the status to
\* processing after it, _process_existing_resume has already done so
AfterAi(r) == [pc |-> IF r = "direct" THEN "status" ELSE "render", idx |-> 0]

\* Where _apply_ai_enhancement continues once the projects loop reached `from`
AtProjects(r, snap, from) ==
    IF snap.ai_enhancement.enhance_projects /\ NextProj(snap, from) # 0
    THEN [pc |-> "ai_projects", idx |-> NextProj(snap, from)]
    ELSE AfterAi(r)

\* Variant: the experience loop does not read its toggle
AtExperience_untoggled(r, snap, from) ==
    IF NextExp(snap, from) # 0
    THEN [pc |-> "ai_experience", idx |-> NextExp(snap, from)]
    ELSE AtProjects(r, snap, 1)

\* Where it continues once the experience loop reached `from`
AtExperience(r, snap, from) ==
    IF snap.ai_enhancement.enhance_experience /\ NextExp(snap, from) # 0
    THEN [pc |-> "ai_experience", idx |-> NextExp(snap, from)]
    ELSE AtProjects(r, snap, 1)

\* Variant: the missing enhancer is not checked
AtSummary_unchecked(r, snap) ==
    IF ~AnyToggle(snap) THEN AfterAi(r)
    ELSE IF snap.ai_enhancement.enhance_summary /\ snap.profile.summary # <<>>
    THEN [pc |-> "ai_summary", idx |-> 0]
    ELSE AtExperience(r, snap, 1)

\* Where it starts: nothing to do without a toggle or without an enhancer
AtSummary(r, snap) ==
    IF ~AnyToggle(snap) \/ ~ai_enhancer THEN AfterAi(r)
    ELSE IF snap.ai_enhancement.enhance_summary /\ snap.profile.summary # <<>>
    THEN [pc |-> "ai_summary", idx |-> 0]
    ELSE AtExperience(r, snap, 1)

\* HTMLRendererService.render_resume: the HTML is a function of the snapshot's
\* profile, experience and projects
render_resume(snap) ==
    [profile |-> snap.profile, experience |-> snap.experience,
     projects |-> snap.projects]

\* The PDF service fails its first pdfPlan[r] calls
PdfSucceeds(r) == calls[r]["pdf"] >= pdfPlan[r]

Goto(r, label) == pc' = [pc EXCEPT ![r] = label]
Throw(r, e) == /\ exc' = [exc EXCEPT ![r] = e]
               /\ Goto(r, "handler")

StoreError == Raise("PyMongoError", "store write failed")

\* ------------------------------------------------------------ create_resume
\* Variant: the task is scheduled before the insert, whatever its outcome
add_task_before_insert(inserted) == TRUE

\* Whether background_tasks.add_task is reached: only when insert_one returned
add_task(inserted) == inserted

\* POST /resumes: validate, insert the draft document, schedule
\* _process_existing_resume and answer 202; 422 on a validation error and 500
\* when the insert raises. (The users-collection update in between has its
\* own try/except and no effect on what follows.)
create_resume(r) ==
    /\ r = "api"
    /\ pc[r] = "idle"
    /\ input[r] # None
    /\ LET v == _validate_draft(Draft(r))
       IN  IF v.raised
           THEN /\ response' = [response EXCEPT ![r] =
                        [code |-> 422, resume_id |-> NULL, status |-> NULL, detail |-> v]]
                /\ Goto(r, "done")
                /\ UNCHANGED <<resumes, queued>>
           ELSE \E ok \in WriteOutcomes :
                  IF ok
                  THEN /\ resumes' = [resumes EXCEPT ![r] =
                              ResumeDocument(r, UserOf(r), model_dump(Draft(r)))]
                       /\ queued' = [queued EXCEPT ![r] = add_task(TRUE)]
                       /\ response' = [response EXCEPT ![r] =
                              [code |-> 202, resume_id |-> r, status |-> PROCESSING,
                               detail |-> Passed]]
                       /\ Goto(r, "background")
                  ELSE /\ queued' = [queued EXCEPT ![r] = add_task(FALSE)]
                       /\ response' = [response EXCEPT ![r] =
                              [code |-> 500, resume_id |-> NULL, status |-> NULL,
                               detail |-> Passed]]
                       /\ Goto(r, "done")
                       /\ UNCHANGED resumes
    /\ UNCHANGED <<env, idx, enhanced, html_content, pdf_bytes, pdf_metadata, exc,
                   outcome, calls, failed>>

\* _process_existing_resume, up to the AI stage: set the status to processing
\* and dump the draft; a raising status update is caught by the outer handler,
\* which only logs
process_existing_start(r) ==
    /\ r = "api"
    /\ pc[r] = "background"
    /\ queued[r]
    /\ \E ok \in WriteOutcomes :
         IF ok
         THEN LET snap == model_dump(Draft(r))
                  next == AtSummary(r, snap)
              IN  /\ resumes' = update_one(r, [status |-> PROCESSING])
                  /\ enhanced' = [enhanced EXCEPT ![r] = Some(snap)]
                  /\ Goto(r, next.pc)
                  /\ idx' = [idx EXCEPT ![r] = next.idx]
                  /\ calls' = Called(r, "get_metrics_tracker")
                  /\ UNCHANGED outcome
         ELSE /\ outcome' = [outcome EXCEPT ![r] = [kind |-> "returned", detail |-> Passed]]
              /\ Goto(r, "done")
              /\ UNCHANGED <<resumes, enhanced, idx, calls>>
    /\ UNCHANGED <<env, html_content, pdf_bytes, pdf_metadata, exc, response, queued,
                   failed>>

\* --------------------------------------------------------- generate_resume
\* Stages 1 and 2: validate (ValidationError is re-raised, nothing stored),
\* then _save_draft inserts the document in status draft
generate_resume_start(r) ==
    /\ r = "direct"
    /\ pc[r] = "idle"
    /\ input[r] # None
    /\ LET v == _validate_draft(Draft(r))
       IN  IF v.raised
           THEN /\ outcome' = [outcome EXCEPT ![r] =
                        [kind |-> "ValidationError", detail |-> v]]
                /\ Goto(r, "done")
                /\ calls' = record_failure(Called(r, "get_metrics_tracker"), r)
                /\ UNCHANGED <<resumes, enhanced, idx, exc>>
           ELSE \E ok \in WriteOutcomes :
                  LET snap == model_dump(Draft(r))
                      next == AtSummary(r, snap)
                  IN  /\ calls' = Called(r, "get_metrics_tracker")
                      /\ IF ok
                         THEN /\ resumes' = [resumes EXCEPT ![r] =
                                     ResumeDocument(r, UserOf(r), snap)]
                              /\ enhanced' = [enhanced EXCEPT ![r] = Some(snap)]
                              /\ Goto(r, next.pc)
                              /\ idx' = [idx EXCEPT ![r] = next.idx]
                              /\ UNCHANGED <<outcome, exc>>
                         ELSE /\ Throw(r, StoreError)
                              /\ UNCHANGED <<resumes, enhanced, idx, outcome>>
    /\ UNCHANGED <<env, html_content, pdf_bytes, pdf_metadata, response, queued, failed>>

\* Stage 4 of generate_resume: _update_status(PROCESSING)
update_status(r) ==
    /\ r = "direct"
    /\ pc[r] = "status"
    /\ \E ok \in WriteOutcomes :
         IF ok
         THEN /\ resumes' = update_one(r, [status |-> PROCESSING])
              /\ Goto(r, "render")
              /\ UNCHANGED exc
         ELSE /\ Throw(r, StoreError)
              /\ UNCHANGED resumes
    /\ UNCHANGED <<env, idx, enhanced, html_content, pdf_bytes, pdf_metadata, outcome,
                   response, queued, calls, failed>>

\* ------------------------------------------------- _apply_ai_enhancement
\* An enhancer call failed: it raised, or its LLM call raised (the enhancer
\* makes no LLM call for a blank text)
Fails(o, blank) ==
    \/ o.kind = "enhancer_raise"
    \/ o.kind = "llm_raise" /\ ~blank

\* The summary block: on an exception of the enhancer the assignment does not
\* happen and the field keeps its value
enhance_summary_step(r) ==
    /\ pc[r] = "ai_summary"
    /\ \E o \in FieldOutcomes :
         LET snap == Snapshot(r)
             new == IF o.kind = "enhancer_raise" THEN snap
                    ELSE [snap EXCEPT !.profile.summary = enhance_summary(@, o)]
             next == AtExperience(r, new, 1)
         IN  /\ enhanced' = [enhanced EXCEPT ![r] = Some(new)]
             /\ Goto(r, next.pc)
             /\ idx' = [idx EXCEPT ![r] = next.idx]
             /\ failed' = IF Fails(o, Blank(snap.profile.summary))
                          THEN [failed EXCEPT ![r] = @ \cup {<<"summary", 0>>}]
                          ELSE failed
    /\ calls' = Called(r, "ai")
    /\ UNCHANGED <<env, resumes, html_content, pdf_bytes, pdf_metadata, exc, outcome,
                   response, queued>>

\* One iteration of the experience loop, for the entry at idx[r]
enhance_experience_step(r) ==
    /\ pc[r] = "ai_experience"
    /\ \E o \in BulletOutcomes :
         LET snap == Snapshot(r)
             i == idx[r]
             new == IF o.kind = "enhancer_raise" THEN snap
                    ELSE [snap EXCEPT !.experience[i].achievements =
                              enhance_experience_achievements(@, o)]
             next == AtExperience(r, new, i + 1)
         IN  /\ enhanced' = [enhanced EXCEPT ![r] = Some(new)]
             /\ Goto(r, next.pc)
             /\ idx' = [idx EXCEPT ![r] = next.idx]
             /\ failed' = IF Fails(o, FALSE)
                          THEN [failed EXCEPT ![r] = @ \cup {<<"experience", i>>}]
                          ELSE failed
    /\ calls' = Called(r, "ai")
    /\ UNCHANGED <<env, resumes, html_content, pdf_bytes, pdf_metadata, exc, outcome,
                   response, queued>>

\* One iteration of the projects loop, for the project at idx[r]
enhance_projects_step(r) ==
    /\ pc[r] = "ai_projects"
    /\ \E o \in FieldOutcomes :
         LET snap == Snapshot(r)
             j == idx[r]
             new == IF o.kind = "enhancer_raise" THEN snap
                    ELSE [snap EXCEPT !.projects[j].description =
                              enhance_project_description(@, o)]
             next == AtProjects(r, new, j + 1)
         IN  /\ enhanced' = [enhanced EXCEPT ![r] = Some(new)]
             /\ Goto(r, next.pc)
             /\ idx' = [idx EXCEPT ![r] = next.idx]
             /\ failed' = IF Fails(o, Blank(snap.projects[j].description))
                          THEN [failed EXCEPT ![r] = @ \cup {<<"projects", j>>}]
                          ELSE failed
    /\ calls' = Called(r, "ai")
    /\ UNCHANGED <<env, resumes, html_content, pdf_bytes, pdf_metadata, exc, outcome,
                   response, queued>>

\* ------------------------------------------------------------------ stages
\* Render HTML from the enhanced snapshot and _save_html it
render(r) ==
    /\ pc[r] = "render"
    /\ calls' = Called(r, "render")
    /\ \E rendered \in BOOLEAN, ok \in WriteOutcomes :
         IF ~rendered
         THEN /\ Throw(r, Raise("Exception", "HTML rendering failed"))
              /\ UNCHANGED <<resumes, html_content>>
         ELSE LET html == render_resume(Snapshot(r))
              IN  IF ok
                  THEN /\ resumes' = update_one(r, [html_content |-> Some(html)])
                       /\ html_content' = [html_content EXCEPT ![r] = Some(html)]
                       /\ Goto(r, "pdf")
                       /\ UNCHANGED exc
                  ELSE /\ Throw(r, StoreError)
                       /\ html_content' = [html_content EXCEPT ![r] = Some(html)]
                       /\ UNCHANGED resumes
    /\ UNCHANGED <<env, idx, enhanced, pdf_bytes, pdf_metadata, outcome, response, queued,
                   failed>>

\* _generate_pdf_with_retry: one call of pdf_service.generate_pdf_from_html;
\* any exception becomes PDFGenerationError
_generate_pdf_with_retry(r) ==
    /\ pc[r] = "pdf"
    /\ calls' = Called(r, "pdf")
    /\ IF PdfSucceeds(r)
       THEN /\ pdf_bytes' = [pdf_bytes EXCEPT ![r] = Some(html_content[r][1])]
            /\ Goto(r, "upload")
            /\ UNCHANGED exc
       ELSE /\ Throw(r, Raise("PDFGenerationError", "PDF generation failed"))
            /\ UNCHANGED pdf_bytes
    /\ UNCHANGED <<env, resumes, idx, enhanced, html_content, pdf_metadata, outcome,
                   response, queued, failed>>

\* _upload_pdf: upload_file, then generate_presigned_url; either exception is
\* re-raised
_upload_pdf(r) ==
    /\ pc[r] = "upload"
    /\ \E uploaded \in BOOLEAN, signed \in BOOLEAN :
         IF ~uploaded
         THEN /\ calls' = Called(r, "upload")
              /\ Throw(r, Raise("Exception", "S3 upload failed"))
              /\ UNCHANGED pdf_metadata
         ELSE /\ calls' = [calls EXCEPT ![r]["upload"] = @ + 1, ![r]["presign"] = @ + 1]
              /\ IF ~signed
                 THEN /\ Throw(r, Raise("Exception", "Presigned URL generation failed"))
                      /\ UNCHANGED pdf_metadata
                 ELSE /\ pdf_metadata' = [pdf_metadata EXCEPT ![r] =
                             Some([s3_key |-> <<"resumes", UserOf(r), r>>,
                                   url |-> <<"url", r>>,
                                   file_size |-> pdf_bytes[r][1]])]
                      /\ Goto(r, "complete")
                      /\ UNCHANGED exc
    /\ UNCHANGED <<env, resumes, idx, enhanced, html_content, pdf_bytes, outcome,
                   response, queued, failed>>

\* Variant: the pdf metadata is left out of the update
complete_fields_without_pdf(meta) ==
    [status |-> COMPLETE, completed_at |-> Some("completed")]

\* The $set document of _complete_resume
complete_fields(meta) ==
    [status |-> COMPLETE, pdf |-> meta, completed_at |-> Some("completed")]

\* Variant: record_success raises after the document was completed
record_success_raising == TRUE

\* metrics.record_success() is called inside the try block, after
\* _complete_resume; it only updates counters and does not raise
record_success_raises == FALSE

\* _complete_resume, then record_success and the return
_complete_resume(r) ==
    /\ pc[r] = "complete"
    /\ \E ok \in WriteOutcomes :
         IF ok
         THEN /\ resumes' = update_one(r, complete_fields(pdf_metadata[r]))
              /\ calls' = Count(Called(r, "complete"), r, "record_success")
              /\ IF record_success_raises
                 THEN /\ Throw(r, Raise("Exception", "metrics failed"))
                      /\ UNCHANGED outcome
                 ELSE /\ outcome' = [outcome EXCEPT ![r] =
                              [kind |-> "returned", detail |-> Passed]]
                      /\ Goto(r, "done")
                      /\ UNCHANGED exc
         ELSE /\ Throw(r, StoreError)
              /\ calls' = Called(r, "complete")
              /\ UNCHANGED <<resumes, outcome>>
    /\ UNCHANGED <<env, idx, enhanced, html_content, pdf_bytes, pdf_metadata, response,
                   queued, failed>>

\* Variant: the handlers pass no error code
ErrorCode_unset(r, e) == NULL

\* The error code each path's handler passes to _mark_error
ErrorCode(r, e) ==
    IF r = "direct"
    THEN IF e.type = "PDFGenerationError" THEN "pdf_error" ELSE "unknown"
    ELSE "processing_error"

\* The error message it passes
ErrorMessage(r, e) ==
    IF r = "direct" /\ e.type = "PDFGenerationError"
    THEN <<"PDF generation failed: ", e.msg>>
    ELSE <<"Resume generation failed: ", e.msg>>

\* Variant: the status is left out of the update
error_fields_without_status(doc, error_message, error_code) ==
    [error_message |-> Some(error_message),
     error_code |-> error_code,
     retry_count |-> doc.retry_count + 1]

\* Variant: the error code is left out of the update
error_fields_without_code(doc, error_message, error_code) ==
    [status |-> ERROR,
     error_message |-> Some(error_message),
     retry_count |-> doc.retry_count + 1]

\* Variant: the $inc of retry_count is left out of the update
error_fields_without_inc(doc, error_message, error_code) ==
    [status |-> ERROR,
     error_message |-> Some(error_message),
     error_code |-> error_code]

\* The $set and $inc documents of _mark_error, applied to the stored document
error_fields(doc, error_message, error_code) ==
    [status |-> ERROR,
     error_message |-> Some(error_message),
     error_code |-> error_code,
     retry_count |-> doc.retry_count + 1]

\* Variant: the background task has no handler of its own
Leaves_unguarded(r, kind) == [kind |-> kind, detail |-> Passed]

\* What leaves the entry point when its handler ends with exception `kind`:
\* generate_resume raises it; _process_existing_resume returns, its inner
\* handler raising nothing further and its outer handler logging the rest
Leaves(r, kind) ==
    IF r = "direct" THEN [kind |-> kind, detail |-> Passed]
    ELSE [kind |-> "returned", detail |-> Passed]

\* The except blocks: _mark_error, then generate_resume raises
\* ResumePipelineError while _process_existing_resume returns; an exception
\* of _mark_error itself leaves generate_resume, and is logged by the outer
\* handler of _process_existing_resume
_mark_error(r) ==
    /\ pc[r] = "handler"
    /\ \E ok \in WriteOutcomes :
         IF ok
         THEN /\ calls' = record_failure(Called(r, "mark_error"), r)
              /\ resumes' =
                    IF Stored(r)
                    THEN update_one(r, error_fields(resumes[r], ErrorMessage(r, exc[r]),
                                                    ErrorCode(r, exc[r])))
                    ELSE resumes
              /\ outcome' = [outcome EXCEPT ![r] = Leaves(r, "ResumePipelineError")]
         ELSE /\ outcome' = [outcome EXCEPT ![r] = Leaves(r, "PyMongoError")]
              /\ calls' = Called(r, "mark_error")
              /\ UNCHANGED resumes
    /\ Goto(r, "done")
    /\ UNCHANGED <<env, idx, enhanced, html_content, pdf_bytes, pdf_metadata, exc,
                   response, queued, failed>>

\* ----------------------------------------------------------- specification
Next ==
    \E r \in Runs :
        \/ create_resume(r)
        \/ process_existing_start(r)
        \/ generate_resume_start(r)
        \/ update_status(r)
        \/ enhance_summary_step(r)
        \/ enhance_experience_step(r)
        \/ enhance_projects_step(r)
        \/ render(r)
        \/ _generate_pdf_with_retry(r)
        \/ _upload_pdf(r)
        \/ _complete_resume(r)
        \/ _mark_error(r)

Spec == Init /\ [][Next]_vars

DraftSpec == DraftInit /\ [][Next]_vars

\* The entry points alone: validation and the first write
ValidateNext ==
    \E r \in Runs :
        \/ create_resume(r)
        \/ generate_resume_start(r)

ValidateSpec == ValidateInit /\ [][ValidateNext]_vars

\* Both paths run against a store whose writes succeed, and the event loop
\* runs every scheduled coroutine to its end
FairInit == Init /\ ~storeFaulty

FairSpec == FairInit /\ [][Next]_vars /\ WF_vars(Next)

\* ---------------------------------------------------------- TaskLock model
\* A key is held in Redis until its EX time has elapsed
RedisLive(k) == redis[k] # None /\ now < redis[k][1]

\* A key is held in the in-memory dict until `now >= expires_at`
MemoryLive(k) == _task_locks[k] # None /\ now < _task_locks[k][1].expires_at

Locked(k) == IF redis_client THEN RedisLive(k) ELSE MemoryLive(k)

\* Variant: the existing entry is not checked, the lock is always taken
_acquire_memory_unchecked(lock_key, timeout_seconds) ==
    [result |-> TRUE,
     locks |-> [_task_locks EXCEPT ![lock_key] =
                    Some([acquired_at |-> now, expires_at |-> now + timeout_seconds])]]

\* TaskLock._acquire_memory: the result and the dict it leaves. The coroutine
\* has no await, so it runs without interleaving inside one process.
_acquire_memory(lock_key, timeout_seconds) ==
    IF _task_locks[lock_key] # None /\ now < _task_locks[lock_key][1].expires_at
    THEN [result |-> FALSE, locks |-> _task_locks]
    ELSE [result |-> TRUE,
          locks |-> [_task_locks EXCEPT ![lock_key] =
                        Some([acquired_at |-> now, expires_at |-> now + timeout_seconds])]]

\* TaskLock._acquire_redis without an exception: SET key value NX EX timeout
_acquire_redis(lock_key, timeout_seconds) ==
    IF RedisLive(lock_key)
    THEN [result |-> FALSE, keys |-> redis]
    ELSE [result |-> TRUE,
          keys |-> [redis EXCEPT ![lock_key] = Some(now + timeout_seconds)]]

\* Variant: the entry is reported released but stays in the dict
_release_memory_keeping(lock_key) ==
    [result |-> _task_locks[lock_key] # None, locks |-> _task_locks]

\* TaskLock._release_memory
_release_memory(lock_key) ==
    IF _task_locks[lock_key] # None
    THEN [result |-> TRUE, locks |-> [_task_locks EXCEPT ![lock_key] = None]]
    ELSE [result |-> FALSE, locks |-> _task_locks]

\* TaskLock._release_redis without an exception: DEL key
_release_redis(lock_key) ==
    IF RedisLive(lock_key)
    THEN [result |-> TRUE, keys |-> [redis EXCEPT ![lock_key] = None]]
    ELSE [result |-> FALSE, keys |-> [redis EXCEPT ![lock_key] = None]]

\* Variant: an exception of SET is taken for an acquired lock
_acquire_redis_except_open == TRUE

\* `except Exception: ... return False` of _acquire_redis
_acquire_redis_except == FALSE

RedisOutcomes == IF redisFaulty THEN {TRUE, FALSE} ELSE {TRUE}

\* The call returns; `at` records when an acquire was executed. The caller
\* holds the key from an acquire that returned True until it calls release.
Finish(c, res, raise) ==
    /\ call' = [call EXCEPT ![c].state = "done", ![c].result = res, ![c].raised = raise,
                            ![c].at = IF call[c].op = "acquire" THEN now ELSE 0]
    /\ held' = IF call[c].op = "acquire" /\ res
               THEN [held EXCEPT ![c][call[c].key] = Some(now + call[c].ttl)]
               ELSE IF call[c].op = "release"
               THEN [held EXCEPT ![c][call[c].key] = None]
               ELSE held

\* A caller enters acquire, release or is_locked: the key is derived and the
\* coroutine is scheduled. `free` and `peers` record what held at that moment:
\* for an acquire, whether the key was free and which acquires of the same
\* key were in flight; a caller's earlier call is forgotten when it calls again.
lock_call(c) ==
    /\ call[c].state # "pending"
    /\ \E op \in {"acquire", "release", "is_locked"}, n \in TaskNames, a \in TaskArgs,
          ttl \in 1..MaxTtl :
         LET k == _get_lock_key(n, a)
         IN  call' = [d \in LockCallers |->
                IF d = c
                THEN [op |-> op, key |-> k, ttl |-> IF op = "acquire" THEN ttl ELSE 0,
                      state |-> "pending", result |-> FALSE, raised |-> FALSE,
                      free |-> op = "acquire" /\ ~Locked(k),
                      peers |-> {e \in LockCallers \ {c} :
                                   /\ op = "acquire"
                                   /\ call[e].state = "pending"
                                   /\ call[e].op = op /\ call[e].key = k},
                      at |-> 0]
                ELSE [call[d] EXCEPT !.peers = @ \ {c}]]
    /\ UNCHANGED <<now, redis_client, redisFaulty, redis, _task_locks, held>>

\* TaskLock.acquire
acquire(c) ==
    /\ call[c].state = "pending" /\ call[c].op = "acquire"
    /\ IF redis_client
       THEN /\ \E ok \in RedisOutcomes :
                 IF ok
                 THEN LET set == _acquire_redis(call[c].key, call[c].ttl)
                      IN  /\ redis' = set.keys
                          /\ Finish(c, set.result, FALSE)
                 ELSE /\ Finish(c, _acquire_redis_except, TRUE)
                      /\ UNCHANGED redis
            /\ UNCHANGED _task_locks
       ELSE LET set == _acquire_memory(call[c].key, call[c].ttl)
            IN  /\ _task_locks' = set.locks
                /\ Finish(c, set.result, FALSE)
                /\ UNCHANGED redis
    /\ UNCHANGED <<now, redis_client, redisFaulty>>

\* TaskLock.release
release(c) ==
    /\ call[c].state = "pending" /\ call[c].op = "release"
    /\ IF redis_client
       THEN /\ \E ok \in RedisOutcomes :
                 IF ok
                 THEN LET del == _release_redis(call[c].key)
                      IN  /\ redis' = del.keys
                          /\ Finish(c, del.result, FALSE)
                 ELSE /\ Finish(c, FALSE, TRUE)
                      /\ UNCHANGED redis
            /\ UNCHANGED _task_locks
       ELSE LET del == _release_memory(call[c].key)
            IN  /\ _task_locks' = del.locks
                /\ Finish(c, del.result, FALSE)
                /\ UNCHANGED redis
    /\ UNCHANGED <<now, redis_client, redisFaulty>>

\* TaskLock.is_locked: GET on Redis (an exception propagates to the caller);
\* the in-memory branch deletes an expired entry
is_locked(c) ==
    /\ call[c].state = "pending" /\ call[c].op = "is_locked"
    /\ IF redis_client
       THEN /\ \E ok \in RedisOutcomes :
                 IF ok THEN Finish(c, RedisLive(call[c].key), FALSE)
                 ELSE Finish(c, FALSE, TRUE)
            /\ UNCHANGED <<redis, _task_locks>>
       ELSE LET k == call[c].key
            IN  /\ Finish(c, MemoryLive(k), FALSE)
                /\ _task_locks' = IF _task_locks[k] # None /\ ~MemoryLive(k)
                                  THEN [_task_locks EXCEPT ![k] = None]
                                  ELSE _task_locks
                /\ UNCHANGED redis
    /\ UNCHANGED <<now, redis_client, redisFaulty>>

\* A second passes; Redis drops the keys whose EX time has elapsed, the
\* in-memory dict keeps its entries
tick ==
    /\ now < MaxTime
    /\ now' = now + 1
    /\ redis' = [k \in LockKeys |->
                    IF redis[k] # None /\ now + 1 >= redis[k][1] THEN None ELSE redis[k]]
    /\ held' = [c \in LockCallers |-> [k \in LockKeys |->
                    IF held[c][k] # None /\ now + 1 >= held[c][k][1] THEN None
                    ELSE held[c][k]]]
    /\ UNCHANGED <<redis_client, redisFaulty, _task_locks, call>>

runVars == <<input, ai_enhancer, storeFaulty, pdfPlan, resumes, pc, idx, enhanced,
             html_content, pdf_bytes, pdf_metadata, exc, outcome, response, queued,
             calls, failed>>

\* One process, its coroutines calling the global task_lock; connect() either
\* established a Redis client, whose commands may later raise, or left the
\* in-memory fallback
LockInit ==
    /\ InitLocks
    /\ NoTasks
    /\ redis_client \in BOOLEAN
    /\ redisFaulty \in (IF redis_client THEN BOOLEAN ELSE {FALSE})
    /\ input = [r \in Runs |-> None]
    /\ ai_enhancer = FALSE
    /\ storeFaulty = FALSE
    /\ pdfPlan = [r \in Runs |-> 0]
    /\ InitRuns

LockNext ==
    /\ \/ \E c \in LockCallers : lock_call(c) \/ acquire(c) \/ release(c) \/ is_locked(c)
       \/ tick
    /\ UNCHANGED <<runVars, workerVars>>

LockSpec == LockInit /\ [][LockNext]_vars

\* ---------------------------------------------------- generate_resume_async
\* The worker task, one action for each update of the document it awaits.
\* Lines 75-84: the task marks the resume as processing, whatever its status
mark_processing(t) ==
    /\ task[t].state = "queued"
    /\ \E ok \in WriteOutcomes :
         IF ok
         THEN /\ task_resumes' = [task_resumes EXCEPT ![task[t].resume_id].status = PROCESSING]
              /\ task' = [task EXCEPT ![t].state = "started"]
         ELSE /\ task' = [task EXCEPT ![t].state = "except"]
              /\ UNCHANGED task_resumes

\* Lines 86-189: user, resume record and sections are fetched and generated
\* (a PDF failure is only logged), then the document is rewritten with
\* status completed and the task returns success; any exception before that
\* enters the handler
generate_sections(t) ==
    /\ task[t].state = "started"
    /\ \E generated \in BOOLEAN, ok \in WriteOutcomes :
         IF generated /\ ok
         THEN /\ task_resumes' = [task_resumes EXCEPT ![task[t].resume_id].status = COMPLETED]
              /\ task' = [task EXCEPT ![t].state = "done", ![t].result = "success"]
         ELSE /\ task' = [task EXCEPT ![t].state = "except"]
              /\ UNCHANGED task_resumes

\* `if self.request.retries < self.max_retries`
may_retry(retries) == retries < max_retries

\* Lines 191-221: the handler writes status failed (an exception of that
\* update is logged and dropped), then either raises self.retry, after which
\* Celery executes the task again with request.retries + 1, or returns the
\* failed result
handle_failure(t) ==
    /\ task[t].state = "except"
    /\ \E ok \in WriteOutcomes :
         task_resumes' = IF ok
                         THEN [task_resumes EXCEPT ![task[t].resume_id].status = FAILED]
                         ELSE task_resumes
    /\ task' = IF may_retry(task[t].retries)
               THEN [task EXCEPT ![t].state = "queued", ![t].retries = @ + 1]
               ELSE [task EXCEPT ![t].state = "done", ![t].result = "failed"]

\* Each message names a resume; nothing in the task or in Celery keeps two
\* messages from naming the same one
WorkerInit ==
    /\ task \in [Deliveries -> [resume_id : TaskResumes, retries : {0},
                                state : {"queued"}, result : {"none"}]]
    /\ task_resumes = PendingResumes
    /\ storeFaulty \in BOOLEAN
    /\ input = [r \in Runs |-> None]
    /\ ai_enhancer = FALSE
    /\ pdfPlan = [r \in Runs |-> 0]
    /\ InitRuns
    /\ InitLocks
    /\ redis_client = FALSE
    /\ redisFaulty = FALSE

WorkerNext ==
    /\ \E t \in Deliveries :
          \/ mark_processing(t)
          \/ generate_sections(t)
          \/ handle_failure(t)
    /\ UNCHANGED <<runVars, lockVars>>

WorkerSpec == WorkerInit /\ [][WorkerNext]_vars

\* ------------------------------------------------------------------ claims
Status(r) == resumes[r].status
Terminal(r) == Stored(r) /\ Status(r) \in {"complete", "error"}
Ended(r) == pc[r] = "done"
WhitespaceOnly(s) == \A i \in 1..Len(s) : s[i] = " "

\* C1: with a reliable store, every run whose draft was accepted and saved
\* ends, and ends with the document in exactly one of complete or error
TerminalReachability ==
    /\ \A r \in Runs : (~storeFaulty /\ Stored(r)) ~> (Ended(r) /\ Terminal(r))
    /\ [](\A r \in Runs : (~storeFaulty /\ Stored(r) /\ Ended(r)) => Terminal(r))

TerminalReachabilityWitness ==
    \E r \in Runs :
        /\ ~storeFaulty /\ Ended(r) /\ Stored(r)
        /\ Status(r) = "error"
        /\ exc[r].msg = "S3 upload failed"

\* C2: a stored document has pdf metadata exactly when its status is complete
ArtifactInvariant ==
    \A r \in Runs : Stored(r) => (resumes[r].pdf # <<>> <=> Status(r) = "complete")

ArtifactInvariantWitness ==
    \E r, q \in Runs :
        /\ Stored(r) /\ Status(r) = "complete" /\ resumes[r].pdf # <<>>
        /\ Stored(q) /\ Status(q) = "error" /\ resumes[q].pdf = <<>>
        /\ calls[q]["pdf"] = 1

\* C3: once a stored status is complete or error, no step changes it
TerminalAbsorbing ==
    [][\A r \in Runs : Terminal(r) => resumes'[r].status = resumes[r].status]_vars

\* _complete_resume was attempted and raised, and the handler marked the error
TerminalAbsorbingWitness ==
    \E r \in Runs :
        /\ calls[r]["complete"] = 1 /\ calls[r]["mark_error"] = 1
        /\ Ended(r) /\ Stored(r) /\ Status(r) = "error"

\* C4: when the PDF service fails twice and then succeeds, and every other
\* stage succeeds, the document ends complete with retry_count 0 and one
\* artifact, the renderer having run once
BoundedProduceRetry ==
    \A r \in Runs :
        (/\ ~storeFaulty /\ Ended(r) /\ Stored(r)
         /\ pdfPlan[r] = 2
         /\ exc[r].type \in {"none", "PDFGenerationError"})
        => (/\ Status(r) = "complete"
            /\ resumes[r].retry_count = 0
            /\ resumes[r].pdf # <<>>
            /\ calls[r]["render"] = 1)

\* C5: when the upload fails, the document ends in error with retry_count 1
\* after a single upload attempt, and its error_code is one that no failure of
\* another stage is given
OtherFailures ==
    {Raise("Exception", "HTML rendering failed"), StoreError,
     Raise("PDFGenerationError", "PDF generation failed")}

UploadFailureClassified ==
    \A r \in Runs :
        (Ended(r) /\ Stored(r) /\ ~storeFaulty /\ exc[r].msg = "S3 upload failed")
        => (/\ Status(r) = "error"
            /\ resumes[r].retry_count = 1
            /\ calls[r]["upload"] = 1
            /\ resumes[r].error_code \notin
                    {"null"} \cup {ErrorCode(r, e) : e \in OtherFailures})

\* C6: a draft whose full_name is empty or whitespace-only is rejected with a
\* validation error naming full_name; nothing is stored, nothing is scheduled
\* and no resume_id is returned
BlankNameRejected ==
    \A r \in Runs :
        (input[r] # <<>> /\ WhitespaceOnly(input[r][1].profile.full_name))
        => (/\ ~Stored(r)
            /\ ~queued[r]
            /\ response[r].resume_id = "null"
            /\ pc[r] \in {"idle", "done"}
            /\ (Ended(r) /\ r = "api") =>
                    (response[r].code = 422 /\ response[r].detail.field = "full_name")
            /\ (Ended(r) /\ r = "direct") =>
                    (/\ outcome[r].kind = "ValidationError"
                     /\ outcome[r].detail.field = "full_name"))

BlankNameRejectedWitness ==
    \E r \in Runs :
        /\ Ended(r)
        /\ input[r][1].profile.full_name = <<" ">>
        /\ input[r][1].experience # <<>>

\* C7: a draft with no experience entry is rejected with a validation error
\* naming experience, and no document is stored for it
ZeroExperienceRejected ==
    \A r \in Runs :
        (input[r] # <<>> /\ Len(input[r][1].experience) = 0)
        => (/\ ~Stored(r)
            /\ (Ended(r) /\ r = "api") => response[r].detail.field = "experience"
            /\ (Ended(r) /\ r = "direct") => outcome[r].detail.field = "experience")

\* C8: with experience enhancement enabled, every entry of the snapshot given
\* to the renderer has as many achievement bullets as the draft had
ListLengthPreserved ==
    \A r \in Runs :
        (/\ input[r] # <<>>
         /\ calls[r]["render"] >= 1
         /\ input[r][1].ai_enhancement.enhance_experience)
        => \A i \in 1..Len(input[r][1].experience) :
              Len(enhanced[r][1].experience[i].achievements)
                = Len(input[r][1].experience[i].achievements)

\* C9: a field whose enhancement failed keeps the value the draft had, every
\* eligible field is still handed to the enhancer, and no exception is in
\* flight before the renderer has been called
FieldOf(snap, f) ==
    IF f[1] = "summary" THEN <<snap.profile.summary>>
    ELSE IF f[1] = "experience" THEN snap.experience[f[2]].achievements
    ELSE <<snap.projects[f[2]].description>>

EligibleFields(draft) ==
    (IF draft.ai_enhancement.enhance_summary /\ draft.profile.summary # <<>>
     THEN {<<"summary", 0>>} ELSE {})
    \cup (IF draft.ai_enhancement.enhance_experience
          THEN {<<"experience", i>> : i \in {k \in 1..Len(draft.experience) :
                                              draft.experience[k].achievements # <<>>}}
          ELSE {})
    \cup (IF draft.ai_enhancement.enhance_projects
          THEN {<<"projects", j>> : j \in {k \in 1..Len(draft.projects) :
                                            draft.projects[k].description # <<>>}}
          ELSE {})

EnhancementFailureIsLocal ==
    \A r \in Runs :
        failed[r] # {} =>
            /\ \A f \in failed[r] : FieldOf(enhanced[r][1], f) = FieldOf(input[r][1], f)
            /\ exc[r] # NoExc => calls[r]["render"] >= 1
            /\ calls[r]["render"] >= 1 =>
                    calls[r]["ai"] = Cardinality(EligibleFields(input[r][1]))

\* The first eligible field failed, a later one was still enhanced, and the
\* document is complete
EnhancementFailureIsLocalWitness ==
    \E r \in Runs :
        /\ <<"summary", 0>> \in failed[r]
        /\ calls[r]["ai"] >= 2
        /\ \E f \in EligibleFields(input[r][1]) \ failed[r] :
              FieldOf(enhanced[r][1], f) # FieldOf(input[r][1], f)
        /\ Stored(r) /\ Status(r) = "complete"

\* C10: of two concurrent acquire calls for the same key, both issued while
\* the key was free and both executed within the lock's TTL, exactly one
\* returns True, on the Redis backend (when its commands do not raise) and on
\* the in-memory fallback of one process
ConcurrentAcquires(c, d) ==
    /\ c # d
    /\ call[c].op = "acquire" /\ call[d].op = "acquire"
    /\ call[c].key = call[d].key
    /\ call[c].state = "done" /\ call[d].state = "done"
    /\ c \in call[d].peers \/ d \in call[c].peers
    /\ call[c].free /\ call[d].free
    /\ ~call[c].raised /\ ~call[d].raised
    /\ call[c].at < call[d].at + call[d].ttl
    /\ call[d].at < call[c].at + call[c].ttl

AcquireMutualExclusion ==
    \A c, d \in LockCallers :
        ConcurrentAcquires(c, d) => call[c].result # call[d].result

AcquireMutualExclusionWitness ==
    \E c, d \in LockCallers :
        /\ ConcurrentAcquires(c, d)
        /\ ~redis_client
        /\ call[c].result /\ ~call[d].result
        /\ call[d].at > call[c].at

\* C11: at most one caller holds a key at a time, a caller holding it from an
\* acquire that returned True until it calls release or its TTL has elapsed;
\* and the lock of such a holder is still in the store, so that a release by
\* a caller whose own TTL has elapsed has not removed it
Holders(k) == {c \in LockCallers : held[c][k] # None}

AtMostOneHolder ==
    \A k \in LockKeys :
        /\ Cardinality(Holders(k)) <= 1
        /\ Holders(k) # {} => Locked(k)

\* C12: once create_resume has scheduled the background task its response is
\* fixed, and _process_existing_resume returns normally whatever fails in it,
\* a failing _mark_error included
Accepted202 ==
    [code |-> 202, resume_id |-> "api", status |-> PROCESSING, detail |-> Passed]

BackgroundNeverPropagates ==
    /\ outcome["api"].kind \in {"none", "returned"}
    /\ queued["api"] => response["api"] = Accepted202
    /\ (queued["api"] /\ Ended("api")) => outcome["api"].kind = "returned"

\* The upload failed and the _mark_error that followed failed too
BackgroundNeverPropagatesWitness ==
    /\ queued["api"] /\ Ended("api")
    /\ exc["api"].msg = "S3 upload failed"
    /\ calls["api"]["mark_error"] = 1
    /\ Status("api") = "processing"

\* C13: create_resume inserts the document, in status draft, before it
\* schedules the background task and answers: a scheduled task and a returned
\* resume_id always have their stored record, no background stage runs
\* without one, and a failed insert schedules nothing
PersistBeforeDispatch ==
    /\ queued["api"] => Stored("api")
    /\ response["api"].resume_id # NULL
            => (queued["api"] /\ Stored("api") /\ response["api"] = Accepted202)
    /\ pc["api"] = "background" => Status("api") = DRAFT
    /\ pc["api"] \notin {"idle", "done"} => Stored("api")
    /\ response["api"].code = 500 => (~queued["api"] /\ ~Stored("api"))

PersistBeforeDispatchWitness ==
    /\ pc["api"] = "background" /\ queued["api"]
    /\ Stored("api") /\ Status("api") = DRAFT
    /\ response["api"] = Accepted202

\* C14: a stored document has an error_message and an error_code exactly
\* when its status is error
ErrorInvariant ==
    \A r \in Runs :
        Stored(r) =>
            /\ resumes[r].error_message # None <=> Status(r) = ERROR
            /\ resumes[r].error_code # NULL <=> Status(r) = ERROR

ErrorInvariantWitness ==
    \E r, q \in Runs :
        /\ Stored(r) /\ Status(r) = ERROR
        /\ resumes[r].error_message # None /\ resumes[r].error_code # NULL
        /\ Stored(q) /\ Status(q) = COMPLETE
        /\ resumes[q].error_message = None /\ resumes[q].error_code = NULL

\* C15: when the PDF service fails in generate_resume, the storage upload and
\* _complete_resume are never called for the run and _mark_error is called
\* once; its update sets status error with an error message and the code
\* pdf_error, and generate_resume raises ResumePipelineError (when that
\* update itself raises, its exception leaves generate_resume instead)
PdfFailureMarksError ==
    exc["direct"].type = "PDFGenerationError" =>
        /\ calls["direct"]["upload"] = 0 /\ calls["direct"]["presign"] = 0
        /\ calls["direct"]["complete"] = 0
        /\ pdf_metadata["direct"] = None /\ resumes["direct"].pdf = None
        /\ Ended("direct") =>
              /\ calls["direct"]["mark_error"] = 1
              /\ outcome["direct"].kind \in {"ResumePipelineError", "PyMongoError"}
              /\ outcome["direct"].kind = "PyMongoError" => storeFaulty
              /\ outcome["direct"].kind = "ResumePipelineError" =>
                    /\ Status("direct") = ERROR
                    /\ resumes["direct"].error_message # None
                    /\ resumes["direct"].error_code = "pdf_error"

PdfFailureMarksErrorWitness ==
    /\ exc["direct"].type = "PDFGenerationError" /\ Ended("direct")
    /\ outcome["direct"].kind = "ResumePipelineError"
    /\ Status("direct") = ERROR /\ calls["direct"]["pdf"] = 1

\* C16: without an AI enhancer, whatever the draft and its toggles, no
\* enhancer call is made, the snapshot the run works on and the HTML rendered
\* from it are those of the original draft, nothing fails before the
\* renderer, and a run in which no stage fails ends complete
OriginalWithoutEnhancer ==
    ~ai_enhancer =>
        \A r \in Runs :
            /\ calls[r]["ai"] = 0 /\ failed[r] = {}
            /\ enhanced[r] # None => enhanced[r][1] = model_dump(input[r][1])
            /\ html_content[r] # None =>
                    html_content[r][1] = render_resume(model_dump(input[r][1]))
            /\ exc[r] # NoExc => calls[r]["render"] >= 1
            /\ (Ended(r) /\ Stored(r) /\ exc[r] = NoExc) => Status(r) = COMPLETE

\* Every toggle is set, there is no enhancer, and the document is complete
OriginalWithoutEnhancerWitness ==
    \E r \in Runs :
        /\ ~ai_enhancer /\ input[r] # None
        /\ input[r][1].ai_enhancement.enhance_summary
        /\ input[r][1].ai_enhancement.enhance_experience
        /\ input[r][1].ai_enhancement.enhance_projects
        /\ input[r][1].profile.summary # <<>>
        /\ Stored(r) /\ Status(r) = COMPLETE

\* C17: for a draft with a non-empty name, validation reports the
\* lowest-index experience entry whose company or position is empty or
\* whitespace-only, by its 1-based index and the missing field, reports
\* nothing when every entry has both, and a rejected draft is never stored
BlankEntries(exps) ==
    {i \in 1..Len(exps) : WhitespaceOnly(exps[i].company) \/ exps[i].company = <<>>
                            \/ WhitespaceOnly(exps[i].position) \/ exps[i].position = <<>>}

LowestOf(S) == CHOOSE i \in S : \A j \in S : i <= j

Rejection(r) ==
    IF r = "api" THEN response[r].code = 422 ELSE outcome[r].kind = "ValidationError"

RejectionDetail(r) == IF r = "api" THEN response[r].detail ELSE outcome[r].detail

LowestBlankEntryReported ==
    \A r \in Runs :
        (input[r] # None /\ pc[r] # "idle" /\ input[r][1].profile.full_name = <<"a">>) =>
            LET exps == input[r][1].experience
                bad == BlankEntries(exps)
            IN  /\ bad = {} => ~Rejection(r)
                /\ bad # {} =>
                      LET i == LowestOf(bad)
                      IN  /\ Rejection(r)
                          /\ RejectionDetail(r).raised
                          /\ RejectionDetail(r).entry = i
                          /\ RejectionDetail(r).field \in {"company", "position"}
                          /\ RejectionDetail(r).field = "company" =>
                                (exps[i].company = <<>> \/ WhitespaceOnly(exps[i].company))
                          /\ RejectionDetail(r).field = "position" =>
                                (exps[i].position = <<>> \/ WhitespaceOnly(exps[i].position))
                          /\ ~Stored(r)
                          /\ pc[r] = "done"

\* The first entry is sound, the second lacks its position only, the third
\* lacks its company: the second entry's position is what is reported
LowestBlankEntryReportedWitness ==
    \E r \in Runs :
        /\ input[r] # None /\ Len(input[r][1].experience) = 3
        /\ BlankEntries(input[r][1].experience) = {2, 3}
        /\ input[r][1].experience[2].company = <<"a">>
        /\ Rejection(r)
        /\ RejectionDetail(r) = ValidationError("position", 2)
        /\ ~Stored(r)

\* C18: the enhancer is at work on a section, has failed on a section or has
\* changed a section only when that section's own toggle is set, whatever the
\* other two toggles are; with all three unset it is never called and the
\* snapshot given to the renderer, and the HTML, are the original's
Toggled(draft, section) ==
    IF section = "summary" THEN draft.ai_enhancement.enhance_summary
    ELSE IF section = "experience" THEN draft.ai_enhancement.enhance_experience
    ELSE draft.ai_enhancement.enhance_projects

TogglesIndependent ==
    \A r \in Runs :
        input[r] # None =>
            LET draft == input[r][1]
                orig == model_dump(draft)
            IN  /\ pc[r] = "ai_summary" => Toggled(draft, "summary")
                /\ pc[r] = "ai_experience" => Toggled(draft, "experience")
                /\ pc[r] = "ai_projects" => Toggled(draft, "projects")
                /\ \A f \in failed[r] : Toggled(draft, f[1])
                /\ calls[r]["ai"] <= Cardinality(EligibleFields(draft))
                /\ enhanced[r] # None =>
                      /\ ~Toggled(draft, "summary") => enhanced[r][1].profile = orig.profile
                      /\ ~Toggled(draft, "experience") =>
                            enhanced[r][1].experience = orig.experience
                      /\ ~Toggled(draft, "projects") =>
                            enhanced[r][1].projects = orig.projects
                /\ ~AnyToggle(draft) =>
                      /\ calls[r]["ai"] = 0
                      /\ enhanced[r] # None => enhanced[r][1] = orig
                      /\ html_content[r] # None =>
                            html_content[r][1] = render_resume(orig)

\* Only the projects toggle is set: the project description was rewritten,
\* the summary and the achievements, though present, were left alone
TogglesIndependentWitness ==
    \E r \in Runs :
        /\ input[r] # None /\ input[r][1].ai_enhancement = OnlyProjects
        /\ input[r][1].profile.summary # <<>>
        /\ \E i \in 1..Len(input[r][1].experience) :
              input[r][1].experience[i].achievements # <<>>
        /\ calls[r]["ai"] = 1
        /\ enhanced[r] # None
        /\ enhanced[r][1].projects # model_dump(input[r][1]).projects
        /\ html_content[r] # None

\* C19: on both paths, while the stored status of a run's document is draft
\* no call has been made, and none is about to be made, on the AI enhancer,
\* the HTML renderer, the PDF service or the storage service
ProcessingBeforeCollaborators ==
    \A r \in Runs :
        (Stored(r) /\ Status(r) = DRAFT) =>
            /\ calls[r]["ai"] = 0 /\ calls[r]["render"] = 0
            /\ calls[r]["pdf"] = 0 /\ calls[r]["upload"] = 0
            /\ pc[r] \notin {"ai_summary", "ai_experience", "ai_projects",
                             "render", "pdf", "upload"}

\* C20: the stages of a run happen in the order enhancement, render, PDF,
\* upload, complete, and a failed stage ends the sequence: the renderer is
\* called once enhancement is over, the PDF service only with rendered and
\* saved HTML, the upload only with generated PDF bytes, completion only with
\* the metadata of a finished upload, the stored pdf metadata is that
\* metadata, and after an exception no later stage has been called
Reached(r, stage, kind) == pc[r] = stage \/ calls[r][kind] >= 1

StagesInOrder ==
    \A r \in Runs :
        /\ calls[r]["render"] <= 1 /\ calls[r]["upload"] <= 1
        /\ calls[r]["presign"] <= 1 /\ calls[r]["complete"] <= 1
        /\ Reached(r, "render", "render") =>
              /\ enhanced[r] # None
              /\ calls[r]["ai"] = IF ai_enhancer
                                  THEN Cardinality(EligibleFields(input[r][1])) ELSE 0
        /\ Reached(r, "pdf", "pdf") =>
              /\ calls[r]["render"] = 1 /\ html_content[r] # None
              /\ Stored(r) /\ resumes[r].html_content = html_content[r]
        /\ Reached(r, "upload", "upload") =>
              calls[r]["pdf"] >= 1 /\ pdf_bytes[r] # None
        /\ pdf_metadata[r] # None => calls[r]["upload"] = 1 /\ calls[r]["presign"] = 1
        /\ Reached(r, "complete", "complete") => pdf_metadata[r] # None
        /\ (Stored(r) /\ resumes[r].pdf # None) =>
              /\ pdf_metadata[r] # None /\ resumes[r].pdf = pdf_metadata[r]
              /\ calls[r]["complete"] = 1
        /\ exc[r] # NoExc =>
              /\ pc[r] \in {"handler", "done"}
              /\ Stored(r) => resumes[r].pdf = None
              /\ exc[r].msg = "HTML rendering failed" =>
                    calls[r]["pdf"] = 0 /\ calls[r]["upload"] = 0 /\ calls[r]["complete"] = 0
              /\ exc[r].type = "PDFGenerationError" =>
                    calls[r]["upload"] = 0 /\ calls[r]["complete"] = 0
              /\ exc[r].msg = "S3 upload failed" =>
                    calls[r]["presign"] = 0 /\ calls[r]["complete"] = 0
              /\ exc[r].msg = "Presigned URL generation failed" =>
                    calls[r]["complete"] = 0

\* One run went through every stage and its document carries the upload's
\* metadata; the other stopped at a failed upload after render and PDF
StagesInOrderWitness ==
    \E r \in Runs, q \in Runs :
        /\ calls[r]["ai"] >= 1 /\ calls[r]["render"] = 1 /\ calls[r]["pdf"] = 1
        /\ calls[r]["upload"] = 1 /\ calls[r]["complete"] = 1
        /\ Stored(r) /\ Status(r) = COMPLETE /\ resumes[r].pdf # None
        /\ exc[q].msg = "S3 upload failed" /\ Ended(q)
        /\ calls[q]["render"] = 1 /\ calls[q]["pdf"] >= 1 /\ calls[q]["complete"] = 0
        /\ Stored(q) /\ resumes[q].pdf = None

\* C21: even when updates of the document store raise during a run, a stored
\* document whose run has ended is complete or in error, never left in draft
\* or processing
NoSilentStall ==
    \A r \in Runs :
        (Stored(r) /\ Ended(r)) => Status(r) \in {COMPLETE, ERROR}

\* C22: retry_count never decreases; the only step that changes it is the
\* update of _mark_error, which adds exactly 1 to it; a document that is
\* complete has retry_count 0 and one in error has a positive retry_count
MarkedError(r) ==
    /\ pc[r] = "handler" /\ Stored(r)
    /\ calls'[r]["mark_error"] = calls[r]["mark_error"] + 1
    /\ resumes'[r].status = ERROR /\ resumes[r].status # ERROR

RetryCountMonotone ==
    /\ [][\A r \in Runs :
            Stored(r) =>
                /\ Stored(r)'
                /\ resumes'[r].retry_count >= resumes[r].retry_count
                /\ MarkedError(r) => resumes'[r].retry_count = resumes[r].retry_count + 1
                /\ resumes'[r].retry_count # resumes[r].retry_count => MarkedError(r)]_vars
    /\ [](\A r \in Runs :
            Stored(r) =>
                /\ Status(r) = COMPLETE => resumes[r].retry_count = 0
                /\ Status(r) = ERROR => resumes[r].retry_count >= 1
                /\ Status(r) \in {DRAFT, PROCESSING} => resumes[r].retry_count = 0)

\* One run failed at the upload and its document counts one error; the other
\* completed with retry_count 0
RetryCountMonotoneWitness ==
    \E r \in Runs, q \in Runs :
        /\ Stored(r) /\ Status(r) = ERROR /\ resumes[r].retry_count = 1
        /\ calls[r]["mark_error"] = 1 /\ exc[r].msg = "S3 upload failed"
        /\ Stored(q) /\ Status(q) = COMPLETE /\ resumes[q].retry_count = 0

\* C23: no two runs of one document are in progress, between the write of
\* processing and the end of the run, at the same time: two executions of the
\* worker task that are both in progress work on different resume ids, and the
\* two in-process runs have documents of their own
InProgress(t) == task[t].state \in {"started", "except"}

SnapshotImmutable ==
    /\ [][\A r \in Runs :
            Stored(r) =>
                /\ Stored(r)'
                /\ resumes'[r].snapshot = resumes[r].snapshot
                /\ resumes'[r].resume_id = resumes[r].resume_id
                /\ resumes'[r].user_id = resumes[r].user_id
                /\ resumes'[r].created_at = resumes[r].created_at]_vars
    /\ [](\A r \in Runs :
            Stored(r) =>
                /\ resumes[r].snapshot = model_dump(input[r][1])
                /\ resumes[r].resume_id = r /\ resumes[r].user_id = UserOf(r))

\* The enhancer rewrote the copy, the HTML was rendered from it, the document
\* went through every update and its snapshot is still the original
SnapshotImmutableWitness ==
    \E r \in Runs, q \in Runs :
        /\ Stored(r) /\ Status(r) = COMPLETE
        /\ enhanced[r] # None /\ enhanced[r][1] # resumes[r].snapshot
        /\ resumes[r].html_content = Some(render_resume(enhanced[r][1]))
        /\ resumes[r].snapshot = model_dump(input[r][1])
        /\ Stored(q) /\ Status(q) = ERROR /\ calls[q]["mark_error"] = 1
        /\ resumes[q].snapshot = model_dump(input[q][1])

\* C25: when the lock's store answers, a key is locked exactly from an
\* acquire that returned True until a release of the key or the end of its
\* TTL: acquire returns True exactly when the key is not locked and leaves it
\* locked for the TTL asked, is_locked returns whether it is locked, a release
\* leaves it unlocked, and nothing else locks, unlocks or extends it
Expiry(k) == IF redis_client THEN redis[k][1] ELSE _task_locks[k][1].expires_at

Executes(c, op) ==
    /\ call[c].state = "pending" /\ call[c].op = op
    /\ call'[c].state = "done" /\ ~call'[c].raised

LockLifecycle ==
    [][/\ \A c \in LockCallers :
            LET k == call[c].key
            IN  /\ Executes(c, "acquire") =>
                      /\ call'[c].result = ~Locked(k)
                      /\ Locked(k)'
                      /\ call'[c].result => Expiry(k)' = now + call[c].ttl
                /\ Executes(c, "is_locked") =>
                      /\ call'[c].result = Locked(k)
                      /\ Locked(k)' = Locked(k)
                /\ Executes(c, "release") => ~Locked(k)'
       /\ \A k \in LockKeys :
            /\ (~Locked(k) /\ Locked(k)') =>
                  \E c \in LockCallers :
                      Executes(c, "acquire") /\ call[c].key = k /\ call'[c].result
            /\ (Locked(k) /\ ~Locked(k)') =>
                  \/ \E c \in LockCallers : Executes(c, "release") /\ call[c].key = k
                  \/ now' = now + 1 /\ now' >= Expiry(k)
            /\ (Locked(k) /\ Locked(k)') => Expiry(k)' = Expiry(k)
            /\ (Locked(k) /\ now' = now + 1 /\ now' >= Expiry(k)) => ~Locked(k)'
      ]_vars

\* The first caller's acquire returned True, its TTL ran out, and the second
\* caller's acquire for the same key then returned True as well
LockLifecycleWitness ==
    /\ ~redisFaulty
    /\ call["w1"].op = "acquire" /\ call["w1"].state = "done" /\ call["w1"].result
    /\ call["w2"].op = "acquire" /\ call["w2"].state = "done" /\ call["w2"].result
    /\ call["w2"].key = call["w1"].key
    /\ call["w2"].at >= call["w1"].at + call["w1"].ttl
    /\ held["w1"][call["w1"].key] = None
    /\ Locked(call["w2"].key)

\* C26: a run that has ended and had opened a metrics session recorded
\* exactly one terminal outcome, record_success or record_failure, once; no
\* run records more than one, and none records one without a session
OneTerminalOutcome ==
    \A r \in Runs :
        LET sessions == calls[r]["get_metrics_tracker"]
            outcomes == calls[r]["record_success"] + calls[r]["record_failure"]
        IN  /\ sessions <= 1
            /\ outcomes <= sessions
            /\ Ended(r) => outcomes = sessions

\* C27: once the worker task has written failed for a resume, no execution of
\* the task sets that resume's status back to processing
FailedIsTerminal ==
    [][\A d \in TaskResumes :
          task_resumes[d].status = FAILED => task_resumes'[d].status # PROCESSING]_vars

\* C28: the worker task is re-executed at most max_retries times, an attempt
\* that succeeded is the last one, and the task returns the failed result
\* only after the last allowed attempt, the resume it alone works on then
\* being stored as failed
OnlyTaskOf(t) == \A u \in Deliveries \ {t} : task[u].resume_id # task[t].resume_id

BoundedTaskRetries ==
    \A t \in Deliveries :
        /\ task[t].retries <= max_retries
        /\ task[t].result # "none" <=> task[t].state = "done"
        /\ (task[t].result = "success" /\ OnlyTaskOf(t)) =>
                task_resumes[task[t].resume_id].status = COMPLETED
        /\ task[t].result = "failed" => task[t].retries = max_retries
        /\ (task[t].result = "failed" /\ OnlyTaskOf(t)) =>
                task_resumes[task[t].resume_id].status = FAILED

\* C29: when generate_resume and create_resume with its background task have
\* both ended on the same draft, with the same outcomes of the enhancer, the
\* renderer, the PDF service and the storage service, their documents agree
\* on being stored, on the status, on the presence of html_content and of pdf
\* metadata, and on the error_code
SameOutcomes ==
    /\ input["api"] = input["direct"]
    /\ pdfPlan["api"] = pdfPlan["direct"]
    /\ exc["api"] = exc["direct"]
    /\ enhanced["api"] = enhanced["direct"]
    /\ failed["api"] = failed["direct"]
    /\ \A k \in {"ai", "render", "pdf", "upload", "presign"} :
          calls["api"][k] = calls["direct"][k]

SameDocument ==
    /\ Stored("api") <=> Stored("direct")
    /\ Stored("api") =>
          /\ Status("api") = Status("direct")
          /\ resumes["api"].html_content = None <=> resumes["direct"].html_content = None
          /\ resumes["api"].pdf = None <=> resumes["direct"].pdf = None

PathsAgree ==
    (~storeFaulty /\ Ended("api") /\ Ended("direct") /\ SameOutcomes) =>
        /\ SameDocument
        /\ Stored("api") => resumes["api"].error_code = resumes["direct"].error_code

\* C30: with a Redis client, an acquire whose SET raises returns False, writes
\* neither Redis nor the in-memory dict and makes nobody a holder, and a
\* release whose DELETE raises returns False; the in-memory dict is used only
\* without a Redis client, and Redis only with one
RedisRaised(c, op) ==
    /\ call[c].state = "pending" /\ call[c].op = op
    /\ call'[c].state = "done" /\ call'[c].raised

FailsClosed ==
    /\ [][\A c \in LockCallers :
            /\ RedisRaised(c, "acquire") =>
                  /\ redis_client
                  /\ ~call'[c].result
                  /\ UNCHANGED <<redis, _task_locks, held>>
            /\ RedisRaised(c, "release") =>
                  /\ redis_client
                  /\ ~call'[c].result
                  /\ UNCHANGED <<redis, _task_locks>>]_vars
    /\ [](/\ redis_client => _task_locks = [k \in LockKeys |-> None]
          /\ ~redis_client => redis = [k \in LockKeys |-> None]
          /\ \A c \in LockCallers :
                (call[c].state = "done" /\ call[c].raised) =>
                    /\ redis_client /\ redisFaulty
                    /\ call[c].op \in {"acquire", "release"} => ~call[c].result)

\* A Redis client is connected; one caller's acquire of a free key met an
\* exception and returned False, the other's release met one and returned
\* False, and the key is held by nobody
FailsClosedWitness ==
    /\ redis_client /\ redisFaulty
    /\ call["w1"].op = "acquire" /\ call["w1"].state = "done"
    /\ call["w1"].raised /\ call["w1"].free /\ ~call["w1"].result
    /\ call["w2"].op = "release" /\ call["w2"].state = "done"
    /\ call["w2"].raised /\ ~call["w2"].result
    /\ \A k \in LockKeys : ~Locked(k) /\ Holders(k) = {}
====
